---- MODULE Spec2Model ----
(***************************************************************************)
(* Model of the emergency trigger of shake-alert-connect:                  *)
(*   src/src/components/EmergencyCallButton.tsx  (React component)         *)
(*   src/unnamed/part_005                        (ShakeDetector)           *)
(*   src/src/utils/emergencyContacts.ts          (contact store)           *)
(*   src/src/pages/Index.tsx                     (speech recognition)      *)
(*                                                                         *)
(* React state (isActivated, countdown, callInProgress) is committed at    *)
(* the end of each handler; the render that follows runs the effects whose *)
(* dependencies changed (cleanups first, then the effect bodies), and a    *)
(* state change made inside an effect causes a further render.  One action *)
(* of the model is one event-loop task: handler, render(s) and effects.    *)
(*                                                                         *)
(* Time is counted in units of one second.  The detector's own timeout     *)
(* (500 ms here) is shorter than one unit, so it does not separate two     *)
(* emissions by a unit and is left out of the component model.  Every      *)
(* pending setTimeout is a record [kind, rem, cd, own]: rem is the number  *)
(* of unit boundaries before its deadline and cd the countdown value       *)
(* captured by the callback's closure.  All delays are whole units, so a   *)
(* deadline falls at the same place of its unit as the call of setTimeout  *)
(* did.  The pending timers are kept in the order of these places, and pos *)
(* tells how many of them the present moment has passed in its unit: two   *)
(* timers due in the same unit fire in the order of their deadlines.       *)
(***************************************************************************)
EXTENDS Integers, Sequences, FiniteSets, TLC

\* ---------------------------------------------------------------- bounds
MaxContacts == 2
MaxPending == 2
MaxTimers == 2
MaxLen == 3
MaxShakes == 3
MaxResets == 2
MaxThreshold == 8
MaxStored == 3
MaxNow == 3
MaxTranscripts == 2

\* ------------------------------------------------------ program constants
CountdownStart == 5
TickTicks == 1
CooldownTicks == 15
ErrorTicks == 3
CancelTicks == 3
ManualTicks == 5

Platforms == {"none", "plain", "ios"}

\* The detector taken alone counts time in units of UnitMs milliseconds and
\* accelerations in 0.01 m/s^2.
UnitMs == 250
MinIntervalMs == 80
threshold == 5
timeout == 500
requiredShakes == 2
WindowMs == 2500
TimeoutTicks == timeout \div UnitMs
WindowTicks == WindowMs \div UnitMs

\* shakeTimeout === null
NoTimer == -1

\* Date.now() - lastTime while lastTime is still 0, in units: any value so
\* large that the speed of the first sample is far below the threshold
Epoch == 500

\* beyond DtCap units no two samples of the model differ enough for either
\* speed test, so a longer time since the last accepted sample reads the same
DtCap == 2

VARIABLES
    isActivated,      \* useState(false)
    countdown,        \* useState(0)
    callInProgress,   \* useState(false)
    callTimeoutRef,   \* useRef(null): TRUE when it holds a timer id
    isShakeEnabled,   \* prop of the component
    timers,           \* pending setTimeout callbacks
    pos,              \* how many of them lie behind the present moment in its unit
    isListening,      \* ShakeDetector.isListening
    listeners,        \* the devicemotion listeners attached to window
    permPending,      \* requestPermission() promises not yet settled
    platform,         \* what window.DeviceMotionEvent offers
    contacts,         \* the stored contact list (localStorage)
    added,            \* contacts added so far: the next id is added + 1
    lastEvent,        \* observation: the event handled by the last step
    firedOwn,         \* observation: the own of the timer fired by the last step
    toasts,           \* observation: notifications (toast, speech) emitted by the last step
    calls,            \* observation: dispatches issued by the last step
    dialed,           \* observation: id of the contact dialed by the last step, 0 if none
    seqCalls,         \* observation: dispatches of the sequence in flight
    seqCanceled,      \* observation: the sequence in flight was canceled while counting down
    seqContact,       \* observation: id of the contact resolved at activation
    seqDeleted        \* observation: that contact was deleted since

\* the phone number formatting taken alone
VARIABLES
    phoneNumber,      \* contact.phoneNumber, a sequence of characters
    formattedNumber,  \* the result of the last replace()
    formatted         \* how many times replace() was applied

fmtVars == <<phoneNumber, formattedNumber, formatted>>

\* the fields of the ShakeDetector that the component model leaves at rest
VARIABLES
    sinceLastTime,     \* Date.now() - lastTime in units, Epoch while lastTime is 0
    lastX, lastY, lastZ,
    shakeTimeout,      \* NoTimer, or the units until the timeout callback is due
    consecutiveShakes,
    resetTimers,       \* units until each pending 2500 ms callback is due
    detOp,             \* observation: the operation of the last step
    emitted,           \* observation: calls of onShake made by the last step
    sinceEmit,         \* observation: units since the last call of onShake
    sinceSampleEmit,   \* observation: units since handleMotion last called onShake
    stopped,           \* observation: stop() detached the listener since then
    quiet,             \* observation: no accepted sample differed from the one
                       \* accepted before it by a speed or axis test
    seen,              \* observation: what handleMotion did with the sample of
                       \* this step ("null", "early" or "taken"), else ""
    halted             \* observation: stop() was called and start() not since

detVars == <<sinceLastTime, lastX, lastY, lastZ, shakeTimeout, consecutiveShakes,
             resetTimers, detOp, emitted, sinceEmit, sinceSampleEmit, stopped,
             quiet, seen, halted>>

triggerVars == <<isActivated, countdown, callInProgress, callTimeoutRef,
                 isShakeEnabled, timers, pos, isListening, listeners, permPending,
                 platform,
                 contacts, added, lastEvent, firedOwn, toasts, calls, dialed,
                 seqCalls, seqCanceled, seqContact, seqDeleted>>

\* the construction of a ShakeDetector, taken alone
VARIABLES
    optThreshold,      \* options.threshold: <<>> when left out, else <<value>>
    optTimeout,        \* options.timeout, likewise
    cfgThreshold,      \* this.threshold of the detector: <<>> before construction
    cfgTimeout,        \* this.timeout, likewise
    cfgStarted,        \* start() was called on the detector
    cfgOp              \* observation: the operation of the last step

cfgVars == <<optThreshold, optTimeout, cfgThreshold, cfgTimeout, cfgStarted, cfgOp>>

\* the contact store, taken alone
VARIABLES
    localStorage,      \* the item under STORAGE_KEY: <<>> when absent, else <<list>>
    now,               \* Date.now()
    storeOp,           \* observation: the operation of the last step
    storeArg,          \* observation: the id the last operation was called with
    result             \* the last result of getPrimaryContact(): <<>> is null

storeVars == <<localStorage, now, storeOp, storeArg, result>>

\* the speech-recognition service, taken alone
VARIABLES
    srListening,       \* SpeechRecognitionService.isListening
    restartTimeout,    \* its restartTimeout: NoTimer, or the units left
    recognition,       \* the browser's recognition: "idle", "started", "ending"
    recoverTimeout,    \* the 100 ms timer of start()'s recovery is pending
    callback,          \* its callback is set (not null)
    transcripts,       \* the final transcripts passed to the callback so far
    srOp,              \* observation: the operation of the last step
    srError,           \* observation: event.error of the last error event
    srCalled           \* observation: the last step called recognition.start()

speechVars == <<srListening, restartTimeout, recognition, recoverTimeout,
                callback, transcripts, srOp, srError, srCalled>>

vars == <<triggerVars, fmtVars, detVars, cfgVars, storeVars, speechVars>>

\* ------------------------------------------------------------ contact store
Contact(i, prim) == [id |-> i, isPrimary |-> prim]

ContactIds == 1..MaxContacts

\* the least of a set of places of a list, 0 when the set is empty: the place
\* find() stops at
FirstOf(places) ==
    IF places = {} THEN 0
    ELSE CHOOSE i \in places : \A j \in places : i <= j

\* the place contacts.find(c => c.isPrimary) stops at
FirstPrimary(cs) == FirstOf({k \in 1..Len(cs) : cs[k].isPrimary})

\* the place contacts.find(c => c.id === id) stops at
FirstWithId(cs, i) == FirstOf({k \in 1..Len(cs) : cs[k].id = i})

\* getPrimaryContact without the first contact as a fallback
getPrimaryContactIn_NoFallback(cs) ==
    LET k == FirstPrimary(cs)
    IN  IF k > 0 THEN <<cs[k]>> ELSE <<>>

\* contacts.find(c => c.isPrimary) || (contacts.length > 0 ? contacts[0] : null);
\* <<>> stands for null, <<c>> for the contact c
getPrimaryContactIn(cs) ==
    LET k == FirstPrimary(cs)
    IN  IF k > 0 THEN <<cs[k]>>
        ELSE IF Len(cs) > 0 THEN <<cs[1]>> ELSE <<>>

\* the id of the primary contact, 0 stands for null
getPrimaryContactOf(cs) ==
    LET r == getPrimaryContactIn(cs)
    IN  IF r = <<>> THEN 0 ELSE r[1].id

getPrimaryContact == getPrimaryContactOf(contacts)

\* addEmergencyContact: the first contact, or one added as primary, becomes
\* the only primary
addEmergencyContact(cs, i, prim) ==
    LET first == Len(cs) = 0
        old == IF prim \/ first
               THEN [k \in 1..Len(cs) |-> [cs[k] EXCEPT !.isPrimary = FALSE]]
               ELSE cs
    IN  Append(old, Contact(i, prim \/ first))

\* deleteEmergencyContact: filter by id; when the deleted one was primary the
\* first remaining contact becomes primary
deleteEmergencyContact(cs, i) ==
    LET kept == SelectSeq(cs, LAMBDA c : c.id # i)
        found == FirstWithId(cs, i)
        wasPrimary == found > 0 /\ cs[found].isPrimary
    IN  IF wasPrimary /\ Len(kept) > 0
        THEN [kept EXCEPT ![1].isPrimary = TRUE]
        ELSE kept

\* updateEmergencyContact: a contact updated as primary clears the flag of
\* the contacts of another id; every contact of its id is replaced by it
updateEmergencyContact(cs, updatedContact) ==
    LET reset == [k \in 1..Len(cs) |->
                    IF updatedContact.isPrimary /\ cs[k].id # updatedContact.id
                    THEN [cs[k] EXCEPT !.isPrimary = FALSE]
                    ELSE cs[k]]
    IN  [k \in 1..Len(cs) |->
            IF reset[k].id = updatedContact.id THEN updatedContact ELSE reset[k]]

\* getEmergencyContacts: the parsed item, [] when there is no item
getEmergencyContactsOf(item) == IF item = <<>> THEN <<>> ELSE item[1]

\* saveEmergencyContacts: the item that holds the list
saveEmergencyContacts(cs) == <<cs>>

\* ------------------------------------------------------------ phone numbers
\* what the class \s of the regular expression matches, as far as a string
\* of the model can hold it
Whitespace == {" ", "\t", "\n", "\r", "\f"}

\* the characters matched by /[\s()-]/
Stripped == Whitespace \cup {"(", ")", "-"}

\* a replace() whose class lacks the hyphen
RECURSIVE formatNumber_KeepsHyphen(_)
formatNumber_KeepsHyphen(str) ==
    IF str = <<>> THEN <<>>
    ELSE IF Head(str) \in Stripped \ {"-"}
         THEN formatNumber_KeepsHyphen(Tail(str))
         ELSE <<Head(str)>> \o formatNumber_KeepsHyphen(Tail(str))

\* phoneNumber.replace(/[\s()-]/g, ''): every match is deleted, scanning the
\* string from the left
RECURSIVE formatNumber(_)
formatNumber(str) ==
    IF str = <<>> THEN <<>>
    ELSE IF Head(str) \in Stripped
         THEN formatNumber(Tail(str))
         ELSE <<Head(str)>> \o formatNumber(Tail(str))

\* the phoneNumber stored with the contact of id i, as entered by the user
phoneNumberOf(i) == <<"+", "1", " ", "(", "5", ")", "-", ToString(i)>>

\* ------------------------------------------------------------------ timers
\* own is an observation: "new" in the step that schedules the timer, "live"
\* afterwards, and "stale" once a later transition of the trigger (a change of
\* isActivated, callInProgress or callTimeoutRef) superseded the state in
\* which the timer was scheduled.  No handler reads it.
Timer(k, r, v) == [kind |-> k, rem |-> r, cd |-> v, own |-> "new"]

\* setTimeout(callback, d) called by the task S, which runs at the place
\* S.at of the order of the timers
setTimeout(S, k, d, v) ==
    [S EXCEPT !.timers = SubSeq(@, 1, S.at - 1)
                           \o <<Timer(k, d, v)>>
                           \o SubSeq(@, S.at, Len(@)),
              !.at = @ + 1]

\* clearTimeout of the pending timers of kind k
clearTimeout(S, k) ==
    [S EXCEPT !.timers = SelectSeq(@, LAMBDA t : t.kind # k),
              !.at = @ - Cardinality({i \in 1..(S.at - 1) : S.timers[i].kind = k})]

\* ------------------------------------------------------- component snapshot
\* The handlers are operators on a snapshot of the component and detector.
Snapshot ==
    [a |-> isActivated, c |-> countdown, p |-> callInProgress,
     ref |-> callTimeoutRef, en |-> isShakeEnabled, timers |-> timers,
     listening |-> isListening, listeners |-> listeners,
     pending |-> permPending,
     shakes |-> consecutiveShakes, shakeTimeout |-> shakeTimeout,
     toasts |-> <<>>, calls |-> 0, dialed |-> 0,
     at |-> pos + 1]

\* ------------------------------------------------------------ ShakeDetector
\* start(): no-op when listening; without DeviceMotionEvent nothing happens;
\* with requestPermission the listener is attached only when the promise
\* settles; otherwise it is attached at once.
\* this.handleMotion, the one function the constructor binds
BoundHandleMotion == "handleMotion"

\* window.addEventListener('devicemotion', this.handleMotion, false): a
\* listener that is already attached is not attached again
addEventListener(S) == [S EXCEPT !.listeners = @ \cup {BoundHandleMotion}]

\* window.removeEventListener('devicemotion', this.handleMotion)
removeEventListener(S) == [S EXCEPT !.listeners = @ \ {BoundHandleMotion}]

\* start() without its test of isListening
start_Unguarded(S) ==
    IF platform = "none" THEN S
    ELSE IF platform = "ios"
         THEN [S EXCEPT !.pending = IF @ < MaxPending THEN @ + 1 ELSE @]
         ELSE [addEventListener(S) EXCEPT !.listening = TRUE]

start(S) ==
    IF S.listening THEN S
    ELSE IF platform = "none" THEN S
    ELSE IF platform = "ios"
         THEN [S EXCEPT !.pending = IF @ < MaxPending THEN @ + 1 ELSE @]
         ELSE [addEventListener(S) EXCEPT !.listening = TRUE]

\* stop() that leaves isListening set
stop_KeepsListening(S) ==
    IF ~S.listening THEN S
    ELSE [removeEventListener(S) EXCEPT !.shakes = 0, !.shakeTimeout = NoTimer]

\* stop(): no-op when not listening; else detach the listener, reset the
\* counter and clear the timeout
stop(S) ==
    IF ~S.listening THEN S
    ELSE [removeEventListener(S) EXCEPT !.listening = FALSE, !.shakes = 0,
                                        !.shakeTimeout = NoTimer]

\* the outcomes of the promise of requestPermission(): it resolves with
\* "granted" or "denied", or it is rejected
Responses == {"granted", "denied", "rejected"}

\* the handlers of start() that give up when the permission is denied
settle_DeniedGivesUp(S, response) ==
    IF response = "denied"
    THEN [S EXCEPT !.pending = @ - 1]
    ELSE [addEventListener(S) EXCEPT !.pending = @ - 1, !.listening = TRUE]

\* the then and catch handlers of start(): the listener is attached and
\* isListening set when the permission is granted, when it is denied and
\* when the request fails
settle(S, response) ==
    IF response = "granted"
    THEN [addEventListener(S) EXCEPT !.pending = @ - 1, !.listening = TRUE]
    ELSE [addEventListener(S) EXCEPT !.pending = @ - 1, !.listening = TRUE]

\* ------------------------------------------------------------ the component
\* handleShakeDetected without its setCountdown(5)
handleShakeDetected_NoCountdown(S, clA, clP) ==
    IF clA \/ clP THEN S
    ELSE IF getPrimaryContact = 0
         THEN [S EXCEPT !.toasts = Append(@, "no-contact")]
         ELSE [S EXCEPT !.a = TRUE, !.toasts = Append(@, "activated")]

\* handleShakeDetected without the return of its no-contact branch
handleShakeDetected_NoReturn(S, clA, clP) ==
    IF clA \/ clP THEN S
    ELSE LET told == IF getPrimaryContact = 0
                     THEN [S EXCEPT !.toasts = Append(@, "no-contact")]
                     ELSE S
         IN  [told EXCEPT !.a = TRUE, !.c = CountdownStart,
                          !.toasts = Append(@, "activated")]

\* handleShakeDetected as closed over the render whose isActivated and
\* callInProgress were clA and clP
handleShakeDetected(S, clA, clP) ==
    IF clA \/ clP THEN S
    ELSE IF getPrimaryContact = 0
         THEN [S EXCEPT !.toasts = Append(@, "no-contact")]
         ELSE [S EXCEPT !.a = TRUE, !.c = CountdownStart,
                        !.toasts = Append(@, "activated")]

\* The detector keeps the handleShakeDetected of the mount render
\* (isActivated = false, callInProgress = false) for its whole life.
onShake(S) == handleShakeDetected(S, FALSE, FALSE)

\* makeEmergencyCall whose catch block schedules no reset and reports nothing
makeEmergencyCall_SilentCatch(S, clP, ok) ==
    IF clP \/ S.ref THEN S
    ELSE IF getPrimaryContact = 0
         THEN [S EXCEPT !.a = FALSE, !.toasts = Append(@, "error-no-contact")]
         ELSE IF ok
              THEN setTimeout([S EXCEPT !.p = TRUE,
                                        !.toasts = Append(@, "call-initiated"),
                                        !.calls = @ + 1,
                                        !.dialed = getPrimaryContact,
                                        !.ref = TRUE],
                              "cooldown", CooldownTicks, 0)
              ELSE [S EXCEPT !.p = TRUE,
                             !.toasts = Append(@, "call-initiated"),
                             !.calls = @ + 1,
                             !.dialed = getPrimaryContact]

\* makeEmergencyCall dialing the contact that was resolved at activation
makeEmergencyCall_CachedContact(S, clP, ok) ==
    IF clP \/ S.ref THEN S
    ELSE IF getPrimaryContact = 0
         THEN [S EXCEPT !.a = FALSE, !.toasts = Append(@, "error-no-contact")]
         ELSE IF ok
              THEN setTimeout([S EXCEPT !.p = TRUE,
                                        !.toasts = Append(@, "call-initiated"),
                                        !.calls = @ + 1,
                                        !.dialed = seqContact,
                                        !.ref = TRUE],
                              "cooldown", CooldownTicks, 0)
              ELSE setTimeout([S EXCEPT !.p = TRUE,
                                        !.toasts = Append(Append(@, "call-initiated"),
                                                          "call-error"),
                                        !.calls = @ + 1,
                                        !.dialed = seqContact],
                              "errorReset", ErrorTicks, 0)

\* makeEmergencyCall as closed over a render with callInProgress = clP;
\* ok tells whether the dispatch code ran through or threw
makeEmergencyCall(S, clP, ok) ==
    IF clP \/ S.ref THEN S
    ELSE IF getPrimaryContact = 0
         THEN [S EXCEPT !.a = FALSE, !.toasts = Append(@, "error-no-contact")]
         ELSE IF ok
              THEN setTimeout([S EXCEPT !.p = TRUE,
                                        !.toasts = Append(@, "call-initiated"),
                                        !.calls = @ + 1,
                                        !.dialed = getPrimaryContact,
                                        !.ref = TRUE],
                              "cooldown", CooldownTicks, 0)
              ELSE setTimeout([S EXCEPT !.p = TRUE,
                                        !.toasts = Append(Append(@, "call-initiated"),
                                                          "call-error"),
                                        !.calls = @ + 1,
                                        !.dialed = getPrimaryContact],
                              "errorReset", ErrorTicks, 0)

\* cancelEmergencyCall without its setIsActivated(false)
cancelEmergencyCall_KeepsActivated(S) ==
    LET cleared == [clearTimeout(S, "cooldown") EXCEPT !.ref = FALSE]
        reset == [cleared EXCEPT !.c = 0, !.p = TRUE]
    IN  [setTimeout(reset, "cancelCooldown", CancelTicks, 0)
            EXCEPT !.toasts = Append(@, "canceled")]

cancelEmergencyCall(S) ==
    LET cleared == [clearTimeout(S, "cooldown") EXCEPT !.ref = FALSE]
        reset == [cleared EXCEPT !.a = FALSE, !.c = 0, !.p = TRUE]
    IN  [setTimeout(reset, "cancelCooldown", CancelTicks, 0)
            EXCEPT !.toasts = Append(@, "canceled")]

simulateShake(S) ==
    IF ~S.p /\ ~S.a /\ ~S.ref THEN onShake(S) ELSE S

manualCall(S) ==
    IF S.p \/ S.a \/ S.ref
    THEN [S EXCEPT !.toasts = Append(@, "call-in-progress")]
    ELSE IF getPrimaryContact = 0
         THEN [S EXCEPT !.toasts = Append(@, "no-contact")]
         ELSE setTimeout([S EXCEPT !.p = TRUE,
                                   !.calls = @ + 1,
                                   !.dialed = getPrimaryContact,
                                   !.toasts = Append(@, "manual-call")],
                         "manualCooldown", ManualTicks, 0)

\* effect of lines 58-84, run when one of its dependencies changed
ControlEffect(S) ==
    LET cleaned == stop(S)
    IN  IF S.en /\ ~S.p /\ ~S.a THEN start(cleaned) ELSE stop(cleaned)

\* the countdown effect calling makeEmergencyCall one tick early
CountdownEffect_OneTickEarly(S, ok) ==
    LET cleaned == clearTimeout(S, "tick")
    IN  IF S.a /\ S.c > 1
        THEN setTimeout(cleaned, "tick", TickTicks, S.c)
        ELSE IF S.a /\ S.c <= 1 /\ ~S.p
             THEN makeEmergencyCall(cleaned, S.p, ok)
             ELSE cleaned

\* effect of lines 86-104, run when one of its dependencies changed
CountdownEffect(S, ok) ==
    LET cleaned == clearTimeout(S, "tick")
    IN  IF S.a /\ S.c > 0
        THEN setTimeout(cleaned, "tick", TickTicks, S.c)
        ELSE IF S.a /\ S.c = 0 /\ ~S.p
             THEN makeEmergencyCall(cleaned, S.p, ok)
             ELSE cleaned

\* The render after a handler turned the committed state old into new, with
\* the renders caused by state changes made in its effects.
RECURSIVE Render(_, _, _)
Render(old, new, ok) ==
    LET ctl == old.en # new.en \/ old.p # new.p \/ old.a # new.a
        cdn == old.a # new.a \/ old.c # new.c \/ old.p # new.p
        s1 == IF ctl THEN ControlEffect(new) ELSE new
        s2 == IF cdn THEN CountdownEffect(s1, ok) ELSE s1
    IN  IF ~ctl /\ ~cdn THEN new
        ELSE IF s2.a = new.a /\ s2.c = new.c /\ s2.p = new.p THEN s2
        ELSE Render(new, s2, ok)

Idle == ~isActivated /\ ~callInProgress /\ ~callTimeoutRef

Range(q) == {q[i] : i \in 1..Len(q)}

Ids(cs) == {cs[k].id : k \in 1..Len(cs)}

\* Timers that stay pending over a transition of the trigger are superseded
Supersede(ts, transition) ==
    [i \in 1..Len(ts) |->
        [ts[i] EXCEPT !.own = IF @ = "new" THEN "live"
                               ELSE IF transition THEN "stale" ELSE @]]

\* Commit a handled event: the component after the handler and its renders.
\* A sequence is in flight from the activation until the trigger is Idle.
Commit(ev, own, S) ==
    LET activated == "activated" \in Range(S.toasts)
        idleAfter == ~S.a /\ ~S.p /\ ~S.ref
        transition == S.a # isActivated \/ S.p # callInProgress \/ S.ref # callTimeoutRef
    IN
    /\ Len(S.timers) <= MaxTimers
    /\ isActivated' = S.a
    /\ countdown' = S.c
    /\ callInProgress' = S.p
    /\ callTimeoutRef' = S.ref
    /\ isShakeEnabled' = S.en
    /\ timers' = Supersede(S.timers, transition)
    /\ pos' = S.at - 1
    /\ isListening' = S.listening
    /\ listeners' = S.listeners
    /\ permPending' = S.pending
    /\ lastEvent' = ev
    /\ firedOwn' = own
    /\ toasts' = S.toasts
    /\ calls' = S.calls
    /\ dialed' = S.dialed
    /\ seqCalls' = IF activated \/ idleAfter THEN 0
                   ELSE IF seqCalls + S.calls > 2 THEN 2 ELSE seqCalls + S.calls
    /\ seqCanceled' = IF activated \/ idleAfter THEN FALSE
                      ELSE seqCanceled \/ (ev = "cancel" /\ isActivated /\ countdown > 0)
    /\ seqContact' = IF activated THEN getPrimaryContact
                     ELSE IF idleAfter THEN 0 ELSE seqContact
    /\ seqDeleted' = IF activated \/ idleAfter THEN FALSE
                     ELSE seqDeleted \/ (seqContact # 0 /\ seqContact \notin Ids(contacts'))
    /\ UNCHANGED platform
    /\ UNCHANGED fmtVars
    /\ UNCHANGED <<cfgVars, storeVars, speechVars>>
    /\ UNCHANGED detVars

Handled(ev, S, ok) == Commit(ev, "", Render(Snapshot, S, ok))

\* ----------------------------------------------------------------- actions
\* The buttons shown while not activated are disabled, and deliver no click,
\* while a call is in progress or the cooldown timer is pending
ButtonsDisabled == callInProgress \/ isActivated \/ callTimeoutRef

\* The trigger button
PressTrigger ==
    /\ UNCHANGED <<contacts, added>>
    /\ ~isActivated
    /\ ~ButtonsDisabled
    /\ \E ok \in BOOLEAN : Handled("trigger", simulateShake(Snapshot), ok)

\* The manual call button
PressManual ==
    /\ UNCHANGED <<contacts, added>>
    /\ ~isActivated
    /\ ~ButtonsDisabled
    /\ \E ok \in BOOLEAN : Handled("manual", manualCall(Snapshot), ok)

\* The cancel button (rendered while activated)
PressCancel ==
    /\ UNCHANGED <<contacts, added>>
    /\ isActivated
    /\ \E ok \in BOOLEAN : Handled("cancel", cancelEmergencyCall(Snapshot), ok)

\* handleMotion reaching the emission while the listener is attached
SensorShake ==
    /\ UNCHANGED <<contacts, added>>
    /\ BoundHandleMotion \in listeners
    /\ \E ok \in BOOLEAN : Handled("shake", onShake(Snapshot), ok)

\* the promise of requestPermission() settles: in each outcome the listener
\* is attached and isListening set
PermissionSettles ==
    /\ UNCHANGED <<contacts, added>>
    /\ permPending > 0
    /\ \E response \in Responses : Commit("env", "", settle(Snapshot, response))

\* the isShakeEnabled prop changes
SetShakeEnabled ==
    /\ UNCHANGED <<contacts, added>>
    /\ \E ok \in BOOLEAN :
         Handled("env", [Snapshot EXCEPT !.en = ~@], ok)

\* The timer at place i is the next one ahead of the present moment and its
\* deadline lies in this unit
MayFire(i) ==
    /\ i = pos + 1
    /\ timers[i].rem = 0

\* a due timer runs its callback
TimerFires ==
    \E i \in 1..Len(timers) :
      /\ MayFire(i)
      /\ UNCHANGED <<contacts, added>>
      /\ \E ok \in BOOLEAN :
           LET t == timers[i]
               S0 == [Snapshot EXCEPT
                        !.timers = SubSeq(@, 1, i - 1) \o SubSeq(@, i + 1, Len(@)),
                        !.at = i]
               S1 == CASE t.kind = "tick" ->
                            [S0 EXCEPT !.c = t.cd - 1, !.toasts = Append(@, "countdown")]
                       [] t.kind = "cooldown" ->
                            [S0 EXCEPT !.a = FALSE, !.p = FALSE, !.ref = FALSE]
                       [] t.kind = "errorReset" ->
                            [S0 EXCEPT !.a = FALSE, !.p = FALSE]
                       [] t.kind = "cancelCooldown" -> [S0 EXCEPT !.p = FALSE]
                       [] t.kind = "manualCooldown" -> [S0 EXCEPT !.p = FALSE]
           IN  Commit(t.kind, t.own, Render(Snapshot, S1, ok))

\* Time passes: the present moment passes the next timer, which is not due
\* in this unit, or, with all timers behind it, the end of the unit
Advance ==
    /\ UNCHANGED <<contacts, added>>
    /\ timers # <<>>
    /\ IF pos < Len(timers)
       THEN /\ timers[pos + 1].rem > 0
            /\ Commit("env", "", [Snapshot EXCEPT !.at = pos + 2])
       ELSE Commit("env", "", [Snapshot EXCEPT
                        !.timers = [i \in 1..Len(@) |-> [@[i] EXCEPT !.rem = @ - 1]],
                        !.at = 1])

\* The contacts page adds a contact; its id (Date.now() in the code) is new
AddContact ==
    /\ added < MaxContacts
    /\ added' = added + 1
    /\ \E prim \in BOOLEAN :
         contacts' = addEmergencyContact(contacts, added + 1, prim)
    /\ Commit("env", "", Snapshot)

\* The contacts page deletes a contact
DeleteContact ==
    /\ UNCHANGED added
    /\ \E k \in 1..Len(contacts) :
         contacts' = deleteEmergencyContact(contacts, contacts[k].id)
    /\ Commit("env", "", Snapshot)

\* After mount with an empty contact list, for which the page passes
\* isShakeEnabled = false: the detector exists and was not started
TriggerInit ==
    /\ isActivated = FALSE
    /\ countdown = 0
    /\ callInProgress = FALSE
    /\ callTimeoutRef = FALSE
    /\ isShakeEnabled = FALSE
    /\ timers = <<>>
    /\ pos = 0
    /\ platform \in Platforms
    /\ isListening = FALSE
    /\ listeners = {}
    /\ permPending = 0
    /\ contacts = <<>>
    /\ added = 0
    /\ lastEvent = "mount"
    /\ firedOwn = ""
    /\ toasts = <<>>
    /\ calls = 0
    /\ dialed = 0
    /\ seqCalls = 0
    /\ seqCanceled = FALSE
    /\ seqContact = 0
    /\ seqDeleted = FALSE

\* no number is being formatted
FormatIdle ==
    /\ phoneNumber = <<>>
    /\ formattedNumber = <<>>
    /\ formatted = 0

\* the detector as its constructor leaves it
DetectorInit ==
    /\ sinceLastTime = Epoch
    /\ lastX = 0 /\ lastY = 0 /\ lastZ = 0
    /\ shakeTimeout = NoTimer
    /\ consecutiveShakes = 0
    /\ resetTimers = {}
    /\ detOp = "new"
    /\ emitted = 0
    /\ seen = ""
    /\ halted = FALSE
    /\ sinceEmit = TimeoutTicks
    /\ sinceSampleEmit = TimeoutTicks
    /\ stopped = FALSE
    /\ quiet = TRUE

\* no options and no detector under construction
ConfigIdle ==
    /\ optThreshold = <<>>
    /\ optTimeout = <<>>
    /\ cfgThreshold = <<>>
    /\ cfgTimeout = <<>>
    /\ cfgStarted = FALSE
    /\ cfgOp = ""

\* nothing was ever stored
StoreIdle ==
    /\ localStorage = <<>>
    /\ now = 1
    /\ storeOp = ""
    /\ storeArg = 0
    /\ result = <<>>

\* the service as its constructor leaves it
SpeechIdle ==
    /\ srListening = FALSE
    /\ restartTimeout = NoTimer
    /\ recognition = "idle"
    /\ recoverTimeout = FALSE
    /\ callback = FALSE
    /\ transcripts = 0
    /\ srOp = ""
    /\ srError = ""
    /\ srCalled = FALSE

Init ==
    /\ TriggerInit
    /\ FormatIdle
    /\ DetectorInit
    /\ ConfigIdle
    /\ StoreIdle
    /\ SpeechIdle

Next ==
    \/ PressTrigger
    \/ PressManual
    \/ PressCancel
    \/ SensorShake
    \/ PermissionSettles
    \/ SetShakeEnabled
    \/ TimerFires
    \/ Advance
    \/ AddContact
    \/ DeleteContact

Spec == Init /\ [][Next]_vars

\* ------------------------------------------------ the formatting taken alone
\* characters a user types into the phone field
Alphabet == {"+", "1", "5", " ", "\t", "(", ")", "-"}

Example ==
    <<"+", "1", " ", "(", "5", "5", "5", ")", " ", "1", "2", "3", "-", "4", "5", "6", "7">>

ExampleFormatted == <<"+", "1", "5", "5", "5", "1", "2", "3", "4", "5", "6", "7">>

PhoneNumbers ==
    {Example} \cup UNION {[1..n -> Alphabet] : n \in 0..MaxLen}

FormatInit ==
    /\ TriggerInit
    /\ DetectorInit
    /\ ConfigIdle
    /\ StoreIdle
    /\ SpeechIdle
    /\ platform = "none"
    /\ phoneNumber \in PhoneNumbers
    /\ formattedNumber = <<>>
    /\ formatted = 0

\* replace() applied to the phone number, and then to its own result
Format ==
    /\ formatted < 2
    /\ formattedNumber' = formatNumber(IF formatted = 0 THEN phoneNumber
                                                        ELSE formattedNumber)
    /\ formatted' = formatted + 1
    /\ UNCHANGED <<phoneNumber, triggerVars, detVars, cfgVars, storeVars, speechVars>>

FormatNext == Format

FormatSpec == FormatInit /\ [][FormatNext]_vars

\* ------------------------------------------------ the contact store alone
getEmergencyContacts == getEmergencyContactsOf(localStorage)

StoreInit ==
    /\ TriggerInit
    /\ platform = "none"
    /\ FormatIdle
    /\ DetectorInit
    /\ ConfigIdle
    /\ StoreIdle
    /\ SpeechIdle

StoreCommit(op, arg, item, res) ==
    /\ localStorage' = item
    /\ storeOp' = op
    /\ storeArg' = arg
    /\ result' = res
    /\ UNCHANGED <<now, triggerVars, fmtVars, detVars, cfgVars, speechVars>>

\* addEmergencyContact(contact): the id is Date.now().toString()
StoreAdd ==
    /\ Len(getEmergencyContacts) < MaxStored
    /\ \E prim \in BOOLEAN :
         StoreCommit("add", now,
                     saveEmergencyContacts(
                         addEmergencyContact(getEmergencyContacts, now, prim)),
                     result)

\* updateEmergencyContact(updatedContact)
StoreUpdate ==
    \E i \in 1..MaxNow, prim \in BOOLEAN :
        StoreCommit("update", i,
                    saveEmergencyContacts(
                        updateEmergencyContact(getEmergencyContacts, Contact(i, prim))),
                    result)

\* deleteEmergencyContact(id)
StoreDelete ==
    \E i \in 1..MaxNow :
        StoreCommit("delete", i,
                    saveEmergencyContacts(
                        deleteEmergencyContact(getEmergencyContacts, i)),
                    result)

\* getPrimaryContact()
StoreGetPrimary ==
    StoreCommit("getPrimary", 0, localStorage,
                getPrimaryContactIn(getEmergencyContacts))

\* the clock reaches the next millisecond
ClockAdvances ==
    /\ now < MaxNow
    /\ now' = now + 1
    /\ storeOp' = "time"
    /\ storeArg' = 0
    /\ UNCHANGED <<localStorage, result, triggerVars, fmtVars, detVars, cfgVars,
                   speechVars>>

StoreNext ==
    \/ StoreAdd
    \/ StoreUpdate
    \/ StoreDelete
    \/ StoreGetPrimary
    \/ ClockAdvances

StoreSpec == StoreInit /\ [][StoreNext]_vars

\* -------------------------------------- the speech-recognition service alone
\* the unit of time of the service and the two restart delays, in ms
SpeechUnitMs == 1000
ErrorRestartMs == 2000
EndRestartMs == 1000

\* event.error values after which onerror restarts, and one after which not
Recoverable == {"no-speech", "network", "not-allowed", "aborted"}
Errors == Recoverable \cup {"audio-capture"}

\* the service and the browser's recognition before a handler runs
Service ==
    [listening |-> srListening, restart |-> restartTimeout,
     rec |-> recognition, recover |-> recoverTimeout,
     callback |-> callback, transcripts |-> transcripts,
     called |-> FALSE, threw |-> FALSE]

\* recognition.start() of the browser: throws unless the recognition is idle
recognitionStart(R) ==
    IF R.rec = "idle"
    THEN [R EXCEPT !.rec = "started", !.called = TRUE, !.threw = FALSE]
    ELSE [R EXCEPT !.called = TRUE, !.threw = TRUE]

\* recognition.stop() of the browser: a started recognition ends later
recognitionStop(R) ==
    IF R.rec = "started" THEN [R EXCEPT !.rec = "ending"] ELSE R

\* stop()
srStop(R) ==
    IF R.listening
    THEN recognitionStop([R EXCEPT !.listening = FALSE, !.restart = NoTimer])
    ELSE R

\* restartWithDelay(delay): clears the pending timer and sets a new one
restartWithDelay(R, delay) == [R EXCEPT !.restart = delay \div SpeechUnitMs]

\* the callback of restartWithDelay's timer
restartCallback(R) ==
    [(IF R.listening THEN recognitionStart(R) ELSE R) EXCEPT !.restart = NoTimer]

\* recognition.onerror
onerror(R, error) ==
    IF error \in Recoverable /\ R.listening
    THEN restartWithDelay(srStop(R), ErrorRestartMs)
    ELSE R

\* recognition.onend
onend(R) ==
    IF R.listening /\ R.restart = NoTimer
    THEN restartWithDelay(R, EndRestartMs)
    ELSE R

\* start(callback), with a recognition the browser supports
srStart(R) ==
    LET started == recognitionStart([R EXCEPT !.callback = TRUE,
                                              !.listening = TRUE])
    IN  IF started.threw
        THEN [recognitionStop(started) EXCEPT !.recover = TRUE]
        ELSE started

\* recognition.onresult with one final result
onresult(R) ==
    IF R.callback THEN [R EXCEPT !.transcripts = @ + 1] ELSE R

\* the callback of the 100 ms timer of start()'s recovery
recoverCallback(R) ==
    [(IF R.listening THEN recognitionStart(R) ELSE R) EXCEPT !.recover = FALSE]

SpeechInit ==
    /\ TriggerInit
    /\ platform = "none"
    /\ FormatIdle
    /\ DetectorInit
    /\ ConfigIdle
    /\ StoreIdle
    /\ SpeechIdle

SpeechCommit(op, error, R) ==
    /\ srListening' = R.listening
    /\ restartTimeout' = R.restart
    /\ recognition' = R.rec
    /\ recoverTimeout' = R.recover
    /\ callback' = R.callback
    /\ transcripts' = R.transcripts
    /\ srOp' = op
    /\ srError' = error
    /\ srCalled' = R.called
    /\ UNCHANGED <<triggerVars, fmtVars, detVars, cfgVars, storeVars>>

\* useVoiceCommands calls start(callback); a second recovery timer is not
\* started while one is pending
SpeechStart ==
    /\ ~(recoverTimeout /\ recognition # "idle")
    /\ SpeechCommit("start", "", srStart(Service))

\* useVoiceCommands calls stop()
SpeechStop == SpeechCommit("stop", "", srStop(Service))

\* the browser reports an error of the started recognition, which then ends
RecognitionError ==
    /\ recognition = "started"
    /\ \E error \in Errors :
         SpeechCommit("error", error,
                      onerror([Service EXCEPT !.rec = "ending"], error))

\* the browser reports a final result, also of a recognition that is ending
RecognitionResult ==
    /\ recognition \in {"started", "ending"}
    /\ transcripts < MaxTranscripts
    /\ SpeechCommit("result", "", onresult(Service))

\* the browser ends the recognition
RecognitionEnd ==
    /\ recognition \in {"started", "ending"}
    /\ SpeechCommit("end", "", onend([Service EXCEPT !.rec = "idle"]))

\* the timer of restartWithDelay fires
RestartFires ==
    /\ restartTimeout = 0
    /\ SpeechCommit("restart", "", restartCallback(Service))

\* the 100 ms timer of start()'s recovery fires
RecoverFires ==
    /\ recoverTimeout
    /\ SpeechCommit("recover", "", recoverCallback(Service))

\* a unit of time passes: no timer is due
SpeechTimePasses ==
    /\ restartTimeout # 0
    /\ ~recoverTimeout
    /\ SpeechCommit("time", "",
                    [Service EXCEPT !.restart = IF @ > 0 THEN @ - 1 ELSE @])

SpeechNext ==
    \/ SpeechStart
    \/ SpeechStop
    \/ RecognitionError
    \/ RecognitionResult
    \/ RecognitionEnd
    \/ RestartFires
    \/ RecoverFires
    \/ SpeechTimePasses

SpeechSpec == SpeechInit /\ [][SpeechNext]_vars

\* ------------------------------------------- the construction of a detector
DefaultThreshold == 8
DefaultTimeout == 1000

\* a || b of JavaScript for an optional number a: b when a is undefined or 0
OrDefault(a, b) == IF a = <<>> \/ a[1] = 0 THEN b ELSE a[1]

\* new ShakeDetector(onShake, options): the fields it sets from the options
constructor(th, tm) ==
    [threshold |-> <<OrDefault(th, DefaultThreshold)>>,
     timeout |-> <<OrDefault(tm, DefaultTimeout)>>]

\* the values of options.threshold and options.timeout tried
ThresholdOptions == {<<>>} \cup {<<v>> : v \in (0 - MaxThreshold)..MaxThreshold}
TimeoutOptions == {<<>>, <<0>>, <<timeout>>, <<DefaultTimeout>>}

ConfigInit ==
    /\ TriggerInit
    /\ FormatIdle
    /\ DetectorInit
    /\ StoreIdle
    /\ SpeechIdle
    /\ platform = "none"
    /\ optThreshold \in ThresholdOptions
    /\ optTimeout \in TimeoutOptions
    /\ cfgThreshold = <<>>
    /\ cfgTimeout = <<>>
    /\ cfgStarted = FALSE
    /\ cfgOp = ""

Construct ==
    /\ cfgOp = ""
    /\ LET d == constructor(optThreshold, optTimeout)
       IN  /\ cfgThreshold' = d.threshold
           /\ cfgTimeout' = d.timeout
    /\ cfgOp' = "new"
    /\ UNCHANGED <<optThreshold, optTimeout, cfgStarted, triggerVars, fmtVars, detVars,
                   storeVars, speechVars>>

\* start() of the constructed detector
ConfigStart ==
    /\ cfgThreshold # <<>>
    /\ cfgStarted' = TRUE
    /\ cfgOp' = "start"
    /\ UNCHANGED <<optThreshold, optTimeout, cfgThreshold, cfgTimeout,
                   triggerVars, fmtVars, detVars, storeVars, speechVars>>

\* setThreshold(t) of the constructed detector
setThreshold ==
    /\ cfgThreshold # <<>>
    /\ \E t \in (0 - MaxThreshold)..MaxThreshold : cfgThreshold' = <<t>>
    /\ cfgOp' = "set"
    /\ UNCHANGED <<optThreshold, optTimeout, cfgTimeout, cfgStarted,
                   triggerVars, fmtVars, detVars, storeVars, speechVars>>

ConfigNext ==
    \/ Construct
    \/ ConfigStart
    \/ setThreshold

ConfigSpec == ConfigInit /\ [][ConfigNext]_vars

\* ------------------------------------------------ the detector taken alone
\* the component's variables other than those of the detector
compVars == <<isActivated, countdown, callInProgress, callTimeoutRef,
              isShakeEnabled, timers, pos, contacts, added, lastEvent, firedOwn,
              toasts, calls, dialed, seqCalls, seqCanceled, seqContact,
              seqDeleted>>

\* event.accelerationIncludingGravity of a sample: null, or <<x, y, z>>
NoAcceleration == <<>>

Rest == <<0, 0, 981>>
Small == <<0, 0, 990>>
Weak == <<0, 15, 981>>
Strong == <<0, 0, 1000>>

Samples == {NoAcceleration, Rest, Small, Weak, Strong}

Abs(n) == IF n < 0 THEN -n ELSE n

Max3(a, b, c) ==
    IF a >= b /\ a >= c THEN a ELSE IF b >= c THEN b ELSE c

\* The detector as a record, for its methods to work on
Detector ==
    [listening |-> isListening, listeners |-> listeners,
     pending |-> permPending,
     shakes |-> consecutiveShakes, shakeTimeout |-> shakeTimeout,
     since |-> sinceLastTime, x |-> lastX, y |-> lastY, z |-> lastZ,
     resets |-> resetTimers, emitted |-> 0, seen |-> ""]

\* (current - this.lastTime) > 80
Accepted(D) == D.since * UnitMs > MinIntervalMs

\* deltaX^2 + deltaY^2 + deltaZ^2 of the sample acc against the last one
DeltaSquare(D, acc) ==
    LET deltaX == Abs(D.x - acc[1])
        deltaY == Abs(D.y - acc[2])
        deltaZ == Abs(D.z - acc[3])
    IN  deltaX * deltaX + deltaY * deltaY + deltaZ * deltaZ

\* speed > this.threshold * num / den, for
\* speed = sqrt(deltaX^2 + deltaY^2 + deltaZ^2) / deltaTime * 10000:
\* with the deltas in 0.01 m/s^2 and deltaTime in ms the speed is
\* sqrt(DeltaSquare) * 100 / deltaTime, and both sides are squared
SpeedAbove(D, acc, num, den) ==
    LET deltaTime == D.since * UnitMs
        lhs == 2 * den
        rhs == num * threshold * (deltaTime \div 50)
    IN  lhs * lhs * DeltaSquare(D, acc) > rhs * rhs

\* maxAxisChange > this.threshold / 1.5
isSingleAxisShake(D, acc) ==
    LET maxAxisChange == Max3(Abs(D.x - acc[1]), Abs(D.y - acc[2]), Abs(D.z - acc[3]))
    IN  3 * maxAxisChange > 2 * threshold * 100

\* speed > this.threshold || isSingleAxisShake
ShakePulse(D, acc) == SpeedAbove(D, acc, 1, 1) \/ isSingleAxisShake(D, acc)

\* handleMotion without the test of shakeTimeout
handleMotion_NoTimeoutTest(D, acc) ==
    IF acc = NoAcceleration THEN [D EXCEPT !.seen = "null"]
    ELSE IF ~Accepted(D) THEN [D EXCEPT !.seen = "early"]
    ELSE LET taken == [D EXCEPT !.seen = "taken", !.since = 0,
                                !.x = acc[1], !.y = acc[2], !.z = acc[3]]
             counted == [taken EXCEPT !.shakes = @ + 1]
         IN  IF ~ShakePulse(D, acc) THEN taken
             ELSE IF counted.shakes >= requiredShakes \/ SpeedAbove(D, acc, 3, 2)
                  THEN [counted EXCEPT !.emitted = @ + 1,
                                       !.shakes = 0,
                                       !.shakeTimeout = TimeoutTicks,
                                       !.resets = @ \cup {WindowTicks}]
                  ELSE [counted EXCEPT !.resets = @ \cup {WindowTicks}]

\* handleMotion without the escape of a very strong shake
handleMotion_StrongNeedsTwo(D, acc) ==
    IF acc = NoAcceleration THEN [D EXCEPT !.seen = "null"]
    ELSE IF ~Accepted(D) THEN [D EXCEPT !.seen = "early"]
    ELSE LET taken == [D EXCEPT !.seen = "taken", !.since = 0,
                                !.x = acc[1], !.y = acc[2], !.z = acc[3]]
             counted == [taken EXCEPT !.shakes = @ + 1]
         IN  IF ~ShakePulse(D, acc) THEN taken
             ELSE IF counted.shakes >= requiredShakes
                  THEN IF counted.shakeTimeout # NoTimer THEN counted
                       ELSE [counted EXCEPT !.emitted = @ + 1,
                                            !.shakes = 0,
                                            !.shakeTimeout = TimeoutTicks,
                                            !.resets = @ \cup {WindowTicks}]
                  ELSE [counted EXCEPT !.resets = @ \cup {WindowTicks}]

\* handleMotion that keeps the counter when it calls onShake
handleMotion_KeepsCounter(D, acc) ==
    IF acc = NoAcceleration THEN [D EXCEPT !.seen = "null"]
    ELSE IF ~Accepted(D) THEN [D EXCEPT !.seen = "early"]
    ELSE LET taken == [D EXCEPT !.seen = "taken", !.since = 0,
                                !.x = acc[1], !.y = acc[2], !.z = acc[3]]
             counted == [taken EXCEPT !.shakes = @ + 1]
         IN  IF ~ShakePulse(D, acc) THEN taken
             ELSE IF counted.shakes >= requiredShakes \/ SpeedAbove(D, acc, 3, 2)
                  THEN IF counted.shakeTimeout # NoTimer THEN counted
                       ELSE [counted EXCEPT !.emitted = @ + 1,
                                            !.shakeTimeout = TimeoutTicks,
                                            !.resets = @ \cup {WindowTicks}]
                  ELSE [counted EXCEPT !.resets = @ \cup {WindowTicks}]

\* handleMotion that stores the sample it rejects for coming too early
handleMotion_EarlyStored(D, acc) ==
    IF acc = NoAcceleration THEN [D EXCEPT !.seen = "null"]
    ELSE IF ~Accepted(D)
         THEN [D EXCEPT !.seen = "early", !.x = acc[1], !.y = acc[2], !.z = acc[3]]
    ELSE LET taken == [D EXCEPT !.seen = "taken", !.since = 0,
                                !.x = acc[1], !.y = acc[2], !.z = acc[3]]
             counted == [taken EXCEPT !.shakes = @ + 1]
         IN  IF ~ShakePulse(D, acc) THEN taken
             ELSE IF counted.shakes >= requiredShakes \/ SpeedAbove(D, acc, 3, 2)
                  THEN IF counted.shakeTimeout # NoTimer THEN counted
                       ELSE [counted EXCEPT !.emitted = @ + 1,
                                            !.shakes = 0,
                                            !.shakeTimeout = TimeoutTicks,
                                            !.resets = @ \cup {WindowTicks}]
                  ELSE [counted EXCEPT !.resets = @ \cup {WindowTicks}]

\* handleMotion that takes the time of an event without acceleration
handleMotion_NullTimed(D, acc) ==
    IF acc = NoAcceleration THEN [D EXCEPT !.seen = "null", !.since = 0]
    ELSE IF ~Accepted(D) THEN [D EXCEPT !.seen = "early"]
    ELSE LET taken == [D EXCEPT !.seen = "taken", !.since = 0,
                                !.x = acc[1], !.y = acc[2], !.z = acc[3]]
             counted == [taken EXCEPT !.shakes = @ + 1]
         IN  IF ~ShakePulse(D, acc) THEN taken
             ELSE IF counted.shakes >= requiredShakes \/ SpeedAbove(D, acc, 3, 2)
                  THEN IF counted.shakeTimeout # NoTimer THEN counted
                       ELSE [counted EXCEPT !.emitted = @ + 1,
                                            !.shakes = 0,
                                            !.shakeTimeout = TimeoutTicks,
                                            !.resets = @ \cup {WindowTicks}]
                  ELSE [counted EXCEPT !.resets = @ \cup {WindowTicks}]

\* handleMotion that does not count the pulses of the timeout
handleMotion_TimeoutUncounted(D, acc) ==
    IF acc = NoAcceleration THEN [D EXCEPT !.seen = "null"]
    ELSE IF ~Accepted(D) THEN [D EXCEPT !.seen = "early"]
    ELSE LET taken == [D EXCEPT !.seen = "taken", !.since = 0,
                                !.x = acc[1], !.y = acc[2], !.z = acc[3]]
             counted == [taken EXCEPT !.shakes = @ + 1]
         IN  IF ~ShakePulse(D, acc) THEN taken
             ELSE IF taken.shakeTimeout # NoTimer THEN taken
             ELSE IF counted.shakes >= requiredShakes \/ SpeedAbove(D, acc, 3, 2)
                  THEN [counted EXCEPT !.emitted = @ + 1,
                                       !.shakes = 0,
                                       !.shakeTimeout = TimeoutTicks,
                                       !.resets = @ \cup {WindowTicks}]
                  ELSE [counted EXCEPT !.resets = @ \cup {WindowTicks}]

\* handleMotion of a devicemotion event
handleMotion(D, acc) ==
    IF acc = NoAcceleration THEN [D EXCEPT !.seen = "null"]
    ELSE IF ~Accepted(D) THEN [D EXCEPT !.seen = "early"]
    ELSE LET taken == [D EXCEPT !.seen = "taken", !.since = 0,
                                !.x = acc[1], !.y = acc[2], !.z = acc[3]]
             counted == [taken EXCEPT !.shakes = @ + 1]
         IN  IF ~ShakePulse(D, acc) THEN taken
             ELSE IF counted.shakes >= requiredShakes \/ SpeedAbove(D, acc, 3, 2)
                  THEN IF counted.shakeTimeout # NoTimer THEN counted
                       ELSE [counted EXCEPT !.emitted = @ + 1,
                                            !.shakes = 0,
                                            !.shakeTimeout = TimeoutTicks,
                                            !.resets = @ \cup {WindowTicks}]
                  ELSE [counted EXCEPT !.resets = @ \cup {WindowTicks}]

\* ShakeDetector.simulateShake guarded by the timeout
detectorSimulateShake_Debounced(D) ==
    IF D.shakeTimeout # NoTimer THEN D ELSE [D EXCEPT !.emitted = @ + 1]

\* ShakeDetector.simulateShake
detectorSimulateShake(D) == [D EXCEPT !.emitted = @ + 1]

\* the callback of the 2500 ms timer
resetShakes(D) == IF D.shakes > 0 THEN [D EXCEPT !.shakes = 0] ELSE D

Min(a, b) == IF a <= b THEN a ELSE b

\* The detector after the operation op
DetCommit(op, D, q) ==
    LET bySample == op = "sample" /\ D.emitted > 0
    IN
    /\ D.shakes <= MaxShakes
    /\ Cardinality(D.resets) <= MaxResets
    /\ isListening' = D.listening
    /\ listeners' = D.listeners
    /\ permPending' = D.pending
    /\ consecutiveShakes' = D.shakes
    /\ shakeTimeout' = D.shakeTimeout
    /\ sinceLastTime' = D.since
    /\ lastX' = D.x /\ lastY' = D.y /\ lastZ' = D.z
    /\ resetTimers' = D.resets
    /\ detOp' = op
    /\ emitted' = D.emitted
    /\ seen' = D.seen
    /\ halted' = IF op = "start" THEN FALSE ELSE IF op = "stop" THEN TRUE ELSE halted
    /\ sinceEmit' = IF D.emitted > 0 THEN 0 ELSE sinceEmit
    /\ sinceSampleEmit' = IF bySample THEN 0 ELSE sinceSampleEmit
    /\ stopped' = IF bySample THEN FALSE
                  ELSE stopped \/ (op = "stop" /\ isListening)
    /\ quiet' = q
    /\ UNCHANGED <<compVars, platform, fmtVars, cfgVars, storeVars, speechVars>>

DetStart == DetCommit("start", start(Detector), quiet)

DetStop == DetCommit("stop", stop(Detector), quiet)

\* the promise of requestPermission() settles
DetPermission ==
    /\ permPending > 0
    /\ \E response \in Responses :
         DetCommit(response, settle(Detector, response), quiet)

\* the attached listener receives a devicemotion event
Motion ==
    /\ BoundHandleMotion \in listeners
    /\ \E acc \in Samples :
         LET first == sinceLastTime = Epoch
             differs == /\ acc # NoAcceleration
                        /\ Accepted(Detector)
                        /\ ~first
                        /\ ShakePulse(Detector, acc)
         IN  DetCommit("sample", handleMotion(Detector, acc), quiet /\ ~differs)

DetSimulate == DetCommit("simulate", detectorSimulateShake(Detector), quiet)

\* the callback of the timeout after an emission is due
ShakeTimeoutFires ==
    /\ shakeTimeout = 0
    /\ DetCommit("timeout", [Detector EXCEPT !.shakeTimeout = NoTimer], quiet)

\* a callback of the 2500 ms timer is due
ResetFires ==
    /\ 0 \in resetTimers
    /\ DetCommit("reset", resetShakes([Detector EXCEPT !.resets = @ \ {0}]), quiet)

\* one unit of time passes with no callback due
TimePasses ==
    /\ shakeTimeout # 0
    /\ 0 \notin resetTimers
    /\ sinceEmit' = Min(sinceEmit + 1, TimeoutTicks)
    /\ sinceSampleEmit' = Min(sinceSampleEmit + 1, TimeoutTicks)
    /\ sinceLastTime' = IF sinceLastTime = Epoch THEN Epoch
                        ELSE Min(sinceLastTime + 1, DtCap)
    /\ shakeTimeout' = IF shakeTimeout = NoTimer THEN NoTimer ELSE shakeTimeout - 1
    /\ resetTimers' = {r - 1 : r \in resetTimers}
    /\ detOp' = "time"
    /\ emitted' = 0
    /\ seen' = ""
    /\ UNCHANGED <<isListening, listeners, permPending, consecutiveShakes, lastX, lastY, lastZ,
                   stopped, quiet, halted, compVars, platform, fmtVars, cfgVars,
                   storeVars, speechVars>>

DetNext ==
    \/ DetStart
    \/ DetStop
    \/ DetPermission
    \/ Motion
    \/ DetSimulate
    \/ ShakeTimeoutFires
    \/ ResetFires
    \/ TimePasses

DetectorSpec == Init /\ [][DetNext]_vars

DetTypeOK ==
    /\ sinceLastTime \in 0..DtCap \cup {Epoch}
    /\ shakeTimeout \in {NoTimer} \cup 0..TimeoutTicks
    /\ consecutiveShakes \in 0..MaxShakes
    /\ resetTimers \subseteq 0..WindowTicks
    /\ emitted \in 0..1
    /\ seen \in {"", "null", "early", "taken"}
    /\ halted \in BOOLEAN
    /\ sinceEmit \in 0..TimeoutTicks
    /\ sinceSampleEmit \in 0..TimeoutTicks

\* ------------------------------------------------------------ trigger states
CountingDown == isActivated /\ countdown > 0

Pending(k) == {i \in 1..Len(timers) : timers[i].kind = k}

TickTimers == Pending("tick")

CooldownKinds == {"cooldown", "errorReset", "cancelCooldown", "manualCooldown"}

TriggerUnchanged ==
    UNCHANGED <<isActivated, countdown, callInProgress, callTimeoutRef>>

\* the step is a tick that takes the countdown of an activated trigger to zero
ReachesZero ==
    /\ lastEvent' = "tick"
    /\ isActivated
    /\ countdown = 1
    /\ countdown' = 0

\* ------------------------------------------------------------------- claims
\* C1: at most one countdown and one dispatch are in flight, and a shake or
\* manual trigger that arrives while the trigger is not Idle is dropped: it
\* changes nothing of the trigger and dials nothing.
C1_SingleSequence ==
    /\ [](Cardinality(TickTimers) <= 1 /\ calls <= 1)
    /\ [][(lastEvent' \in {"shake", "trigger", "manual"} /\ ~Idle)
            => (TriggerUnchanged /\ calls' = 0)]_vars

\* C2: a sequence whose countdown reaches zero while a contact is resolvable
\* dispatches in that step, and no sequence dispatches twice.
C2_ExactlyOnce ==
    /\ [](seqCalls <= 1)
    /\ [][(ReachesZero /\ getPrimaryContact # 0) => calls' = 1]_vars

\* C3: once cancel() was called while counting down, the sequence in flight
\* never dispatches, whatever the order of the cancel and the pending tick.
C3_CancelPreventsDispatch ==
    [][seqCanceled => calls' = 0]_vars

C3_Witness ==
    /\ seqCanceled
    /\ lastEvent = "cancel"
    /\ ~isActivated
    /\ callInProgress
    /\ TickTimers = {}

\* C4: while the cooldown after a dispatch is pending no sequence is
\* activated, and only the firing of the cooldown timer ends it.
C4_FullCooldown ==
    /\ [][callTimeoutRef => "activated" \notin Range(toasts')]_vars
    /\ [][(callTimeoutRef /\ ~callTimeoutRef') => lastEvent' = "cooldown"]_vars

\* C5: cancel() outside CountingDown changes nothing: trigger state, timers
\* and notifications stay as they were.
C5_CancelNoOp ==
    [][(lastEvent' = "cancel" /\ ~CountingDown)
         => (TriggerUnchanged /\ UNCHANGED timers /\ toasts' = <<>>)]_vars

\* C6: when the contact resolved at activation was deleted during the
\* countdown, reaching zero emits the no-contact error, returns to Idle and
\* dials nothing.
C6_DeletedContact ==
    [][(ReachesZero /\ seqDeleted)
         => ("error-no-contact" \in Range(toasts') /\ Idle' /\ calls' = 0)]_vars

C8_NoStaleTimer ==
    [][firedOwn' = "stale" => TriggerUnchanged]_vars

\* C10: a shake delivered while the trigger is not Idle leaves it unchanged,
\* emits nothing and schedules nothing.
C10_ShakeNoOp ==
    [][(lastEvent' = "shake" /\ ~Idle)
         => (TriggerUnchanged /\ UNCHANGED timers /\ toasts' = <<>>)]_vars

\* ----------------------------------------------------------------- liveness
\* Due timers fire and time passes
LiveSpec == Spec /\ WF_vars(TimerFires) /\ WF_vars(Advance)

\* C9: when due timers fire and time passes, the trigger returns to Idle from
\* every state that is not Idle, and in Idle a shake with a resolvable
\* contact starts the countdown.
C9_ReturnsToIdle ==
    /\ (~Idle) ~> Idle
    /\ [][(Idle /\ lastEvent' \in {"shake", "trigger"} /\ getPrimaryContact # 0)
            => (isActivated' /\ countdown' = CountdownStart)]_vars

\* the step is a shake or a press of the trigger button taken in Idle
AcceptedInIdle == Idle /\ lastEvent' \in {"shake", "trigger"}

C12_NoContactStaysIdle ==
    [][(AcceptedInIdle /\ lastEvent' = "shake" /\ getPrimaryContact = 0)
         => /\ TriggerUnchanged /\ Idle'
            /\ toasts' = <<"no-contact">>
            /\ UNCHANGED timers
            /\ calls' = 0]_vars

C12_Witness ==
    /\ lastEvent = "shake"
    /\ contacts = <<>>
    /\ toasts = <<"no-contact">>
    /\ Idle

\* occurrences of x in the sequence q
Count(q, x) == Cardinality({i \in 1..Len(q) : q[i] = x})

\* C13: a tick fires only while counting down, takes the countdown down by
\* exactly one and emits one progress notification; while the trigger stays
\* activated the countdown changes by ticks only; and a sequence dispatches
\* only in the step of the tick that takes the countdown from 1 to 0.
C13_CountdownByOne ==
    /\ [][lastEvent' = "tick"
            => /\ CountingDown
               /\ countdown' = countdown - 1
               /\ Count(toasts', "countdown") = 1]_vars
    /\ [][(isActivated /\ isActivated' /\ countdown' # countdown)
            => (lastEvent' = "tick" /\ countdown' = countdown - 1)]_vars
    /\ [][(calls' > 0 /\ lastEvent' # "manual") => ReachesZero]_vars

\* C14: cancel() while counting down ends in a cooldown, not in Idle; until
\* the trigger is Idle again every shake, trigger press and manual call is
\* rejected, and the step that makes it Idle is the firing of the cooldown
\* timer that this cancel scheduled.
C14_CancelCooldown ==
    /\ [][(lastEvent' = "cancel" /\ CountingDown)
            => /\ ~Idle' /\ ~isActivated' /\ callInProgress'
               /\ \E i \in Pending("cancelCooldown")' :
                    timers'[i].rem = CancelTicks /\ timers'[i].own = "live"]_vars
    /\ [][(seqCanceled /\ lastEvent' \in {"shake", "trigger", "manual"})
            => (TriggerUnchanged /\ calls' = 0 /\ "activated" \notin Range(toasts'))]_vars
    /\ [][(seqCanceled /\ ~Idle /\ Idle')
            => (lastEvent' = "cancelCooldown" /\ firedOwn' = "live")]_vars

\* timers of the kinds that end the cooldown after a dispatch attempt
AfterDispatch == Pending("cooldown") \cup Pending("errorReset")

\* C15: within one sequence the activation resolves the contact and dials
\* nothing, the dispatch comes with the tick that takes the countdown to
\* zero and leaves no tick pending, the cooldown after a dispatch is
\* scheduled by the dispatch step only, and after its dispatch the sequence
\* neither ticks nor dispatches again.
C15_StepsInOrder ==
    /\ [][("activated" \in Range(toasts'))
            => (getPrimaryContact # 0 /\ calls' = 0 /\ CountingDown')]_vars
    /\ [][(calls' > 0 /\ lastEvent' # "manual")
            => (ReachesZero /\ TickTimers' = {})]_vars
    /\ [][(Cardinality(AfterDispatch') > Cardinality(AfterDispatch))
            => "call-initiated" \in Range(toasts')]_vars
    /\ [][seqCalls > 0 => (lastEvent' # "tick" /\ calls' = 0)]_vars

C15_Witness ==
    /\ seqCalls = 1
    /\ lastEvent = "tick"
    /\ countdown = 0
    /\ isActivated /\ callInProgress /\ callTimeoutRef
    /\ TickTimers = {}
    /\ AfterDispatch # {}

\* the number put into the tel: link by the last step
DialedNumber == IF dialed = 0 THEN <<>> ELSE formatNumber(phoneNumberOf(dialed))

\* C16: every dispatch dials the contact that getPrimaryContact() returns in
\* the step of the dispatch, and the number dialed is that contact's phone
\* number formatted, whatever contact was primary at activation.
C16_ResolvedAtDispatch ==
    [][calls' > 0
         => /\ getPrimaryContact # 0
            /\ dialed' = getPrimaryContact
            /\ DialedNumber' = formatNumber(phoneNumberOf(getPrimaryContact))]_vars

C16_Witness ==
    /\ calls = 1
    /\ lastEvent = "tick"
    /\ seqContact # 0
    /\ dialed # seqContact
    /\ dialed = getPrimaryContact
    /\ DialedNumber = <<"+", "1", "5", ToString(dialed)>>

\* the places of str whose character the format keeps
Kept(str) == {i \in 1..Len(str) : str[i] \notin Stripped}

\* C17: the formatted number is the phone number without its whitespace,
\* parentheses and hyphens: it has the kept characters, each once and in
\* their order; "+1 (555) 123-4567" gives "+15551234567"; and formatting
\* the formatted number again gives the same.
C17_Normalized ==
    formatted > 0
      => /\ Len(formattedNumber) = Cardinality(Kept(phoneNumber))
         /\ \A i \in Kept(phoneNumber) :
               formattedNumber[Cardinality({j \in Kept(phoneNumber) : j <= i})]
                 = phoneNumber[i]
         /\ (phoneNumber = Example => formattedNumber = ExampleFormatted)

C17_Witness ==
    /\ formatted = 2
    /\ phoneNumber = Example
    /\ formattedNumber = ExampleFormatted

\* C18 as stated: no call of onShake comes less than the timeout after the
\* call before it, whatever was called in between.
C18_RefractoryAlways ==
    [][emitted' > 0 => sinceEmit >= TimeoutTicks]_vars

\* C18 as the code has it: handleMotion calls onShake less than the timeout
\* after its last call only if stop() detached the listener in between;
\* qualifying samples alone never do it.
C18_RefractoryUnlessStopped ==
    [][(detOp' = "sample" /\ emitted' > 0)
         => (sinceSampleEmit >= TimeoutTicks \/ stopped)]_vars

C18_Witness ==
    /\ detOp = "sample"
    /\ emitted = 0
    /\ sinceSampleEmit < TimeoutTicks
    /\ ~stopped
    /\ shakeTimeout # NoTimer
    /\ sinceLastTime = 0
    /\ lastZ = Strong[3]
    /\ consecutiveShakes > 0

\* C19: as long as no accepted sample differs from the sample accepted before
\* it by the speed test or the single-axis test, the counter is zero and no
\* sample calls onShake.
C19_QuietNeverCounts ==
    /\ [](quiet => consecutiveShakes = 0)
    /\ [][(quiet' /\ detOp' = "sample") => emitted' = 0]_vars

\* the fields of the detector
DetectorFields ==
    <<isListening, permPending, sinceLastTime, lastX, lastY, lastZ, shakeTimeout,
      consecutiveShakes, resetTimers>>

\* C20: simulateShake() can be called in every state of the detector, calls
\* onShake exactly once and changes no field of the detector.
C20_SimulateEmitsOnce ==
    /\ [](ENABLED DetSimulate)
    /\ [][detOp' = "simulate" => (emitted' = 1 /\ UNCHANGED DetectorFields)]_vars

C20_Witness ==
    /\ detOp = "simulate"
    /\ emitted = 1
    /\ shakeTimeout # NoTimer
    /\ consecutiveShakes > 0
    /\ sinceSampleEmit < TimeoutTicks

\* the sample the detector accepted in this step
acceleration == <<lastX', lastY', lastZ'>>

\* this step is handleMotion of a sample that passed the test of line 137
AcceptedSample ==
    /\ detOp' = "sample"
    /\ Accepted(Detector)
    /\ sinceLastTime' = 0

\* this step is handleMotion of an accepted sample that is a shake pulse
PulseSample == AcceptedSample /\ ShakePulse(Detector, acceleration)

\* ... whose speed exceeds threshold * 1.5
StrongSample == AcceptedSample /\ SpeedAbove(Detector, acceleration, 3, 2)

\* C21: a sample faster than threshold * 1.5 that is accepted while no
\* timeout of an earlier emission is pending calls onShake exactly once; the
\* samples that follow it before any time has passed call it never, and no
\* sample calls it while the timeout that the emission started is pending.
C21_StrongBurstOnce ==
    /\ [][(StrongSample /\ shakeTimeout = NoTimer) => emitted' = 1]_vars
    /\ [][(detOp' = "sample" /\ sinceSampleEmit = 0) => emitted' = 0]_vars
    /\ [][(detOp' = "sample" /\ shakeTimeout # NoTimer) => emitted' = 0]_vars

\* a strong sample called onShake with no pulse in the 2500 ms before it
C21_Witness ==
    /\ detOp = "sample"
    /\ emitted = 1
    /\ lastZ = Strong[3]
    /\ resetTimers = {WindowTicks}

\* C22: with no timeout pending, an accepted pulse calls onShake exactly when
\* the counter, this pulse counted, is at least requiredShakes or the speed of
\* the pulse exceeds threshold * 1.5; a sample that is no accepted pulse never
\* calls it; a call sets the counter to zero and starts the timeout.
C22_EmissionRule ==
    /\ [][(PulseSample /\ shakeTimeout = NoTimer)
            => (emitted' = 1 <=> (consecutiveShakes + 1 >= requiredShakes \/ StrongSample))]_vars
    /\ [][(detOp' = "sample" /\ ~PulseSample) => emitted' = 0]_vars
    /\ [][(detOp' = "sample" /\ emitted' > 0)
            => (consecutiveShakes' = 0 /\ shakeTimeout' = TimeoutTicks)]_vars

\* a pulse called onShake after an earlier pulse of the same window
C22_Witness ==
    /\ detOp = "sample"
    /\ emitted = 1
    /\ consecutiveShakes = 0
    /\ shakeTimeout = TimeoutTicks
    /\ Cardinality(resetTimers) >= 2

\* C23: the callback of a 2500 ms timer sets a counter above zero to zero only
\* if no pulse was counted in the 2500 ms before it, that is, if no timer of a
\* later pulse is pending.
C23_ResetAfterWindow ==
    [][(detOp' = "reset" /\ consecutiveShakes > 0 /\ consecutiveShakes' = 0)
         => resetTimers' = {}]_vars

\* C24: stop() on a detector that is not listening changes no field; after
\* stop() the detector is not listening, so that a second stop() changes
\* nothing: stop() twice gives the state of stop() once.
C24_StopIdempotent ==
    /\ [][(detOp' = "stop" /\ ~isListening) => UNCHANGED DetectorFields]_vars
    /\ [][detOp' = "stop" => ~isListening']_vars
    /\ [](stop(stop(Detector)) = stop(Detector))

\* stop() was called on a detector that never listened
C24_Witness ==
    /\ detOp = "stop"
    /\ ~isListening
    /\ ~stopped
    /\ sinceLastTime = Epoch

\* C25: stop() on a listening detector leaves every field of its state as the
\* constructor left it: no last sample, no last time, counter zero, no timeout.
C25_StopResetsState ==
    [][(detOp' = "stop" /\ isListening)
         => /\ lastX' = 0 /\ lastY' = 0 /\ lastZ' = 0
            /\ sinceLastTime' = Epoch
            /\ consecutiveShakes' = 0
            /\ shakeTimeout' = NoTimer]_vars

\* C26: a sample that comes 80 ms or less after the last accepted one is
\* rejected: no field of the detector changes and onShake is not called.
C26_EarlySampleIgnored ==
    /\ [][seen' = "early" => (UNCHANGED DetectorFields /\ emitted' = 0)]_vars
    /\ [][(detOp' = "sample" /\ ~Accepted(Detector)) => seen' \in {"null", "early"}]_vars

\* a sample was rejected while one more pulse would have called onShake
C26_Witness ==
    /\ seen = "early"
    /\ consecutiveShakes = requiredShakes - 1
    /\ shakeTimeout = NoTimer

\* C27: an event without accelerationIncludingGravity changes no field of the
\* detector and does not call onShake.
C27_MissingSampleIgnored ==
    [][seen' = "null" => (UNCHANGED DetectorFields /\ emitted' = 0)]_vars

\* an event without acceleration came when a sample would have been accepted
C27_Witness ==
    /\ seen = "null"
    /\ Accepted(Detector)
    /\ consecutiveShakes = requiredShakes - 1
    /\ shakeTimeout = NoTimer

\* C28: the constructor makes no detector from a threshold option that is
\* zero or negative, and no detector it made has a threshold of zero or less.
C28_RejectsBadThreshold ==
    /\ [][(cfgOp' = "new" /\ optThreshold # <<>> /\ optThreshold[1] <= 0)
            => cfgThreshold' = <<>>]_vars
    /\ [][(cfgOp' = "new" /\ cfgThreshold' # <<>>) => cfgThreshold'[1] > 0]_vars

\* C29: start() can be called in every state and returns; without a motion
\* sensor it changes nothing and the detector does not listen; where no
\* permission is asked it listens at once; where it is asked, the detector
\* listens as soon as the request is denied or fails.
C29_StartNeverThrows ==
    /\ [](ENABLED DetStart)
    /\ [][(detOp' = "start" /\ platform = "none")
            => (~isListening' /\ UNCHANGED DetectorFields)]_vars
    /\ [][(detOp' = "start" /\ platform = "plain") => isListening']_vars
    /\ [][(detOp' = "start" /\ platform = "ios" /\ ~isListening)
            => (~isListening' /\ permPending' > 0)]_vars
    /\ [][detOp' \in {"denied", "rejected"} => isListening']_vars

\* the permission was denied and the detector listens
C29_Witness ==
    /\ detOp = "denied"
    /\ isListening
    /\ platform = "ios"

\* C30: from a call of stop() to the next call of start() the detector is not
\* listening and no sample calls onShake.
C30_StoppedStaysStopped ==
    /\ [](halted => ~isListening)
    /\ [][(halted /\ detOp' = "sample") => emitted' = 0]_vars

\* C31: a pulse accepted while the timeout of an emission is pending adds one
\* to the counter and does not call onShake; a pulse accepted when no timeout
\* is pending calls onShake once if the counter, this pulse counted, is at
\* least requiredShakes.
C31_CountedDuringTimeout ==
    /\ [][(PulseSample /\ shakeTimeout # NoTimer)
            => (consecutiveShakes' = consecutiveShakes + 1 /\ emitted' = 0)]_vars
    /\ [][(PulseSample /\ shakeTimeout = NoTimer
              /\ consecutiveShakes + 1 >= requiredShakes) => emitted' = 1]_vars

\* pulses of the timeout brought the counter to requiredShakes
C31_Witness ==
    /\ seen = "taken"
    /\ emitted = 0
    /\ shakeTimeout # NoTimer
    /\ consecutiveShakes >= requiredShakes

\* C32: after every step and its effects, the detector does not listen while
\* the trigger is activated or a call is in progress or shake detection is
\* disabled; it begins to listen only in a state that is none of these; and
\* the detector calls handleShakeDetected only when the trigger is neither
\* activated nor in a call.
C32_DetectorFollowsTrigger ==
    /\ []((isActivated \/ callInProgress \/ ~isShakeEnabled) => ~isListening)
    /\ [][(~isListening /\ isListening')
            => (~isActivated' /\ ~callInProgress' /\ isShakeEnabled')]_vars
    /\ [][lastEvent' = "shake" => (~isActivated /\ ~callInProgress)]_vars

\* the cooldown of a manual call is running: its 5 s timer is pending and no
\* transition of the trigger came after the call
ManualCooldown == \E i \in Pending("manualCooldown") : timers[i].own = "live"

\* C33: the manual call button pressed while the trigger is not Idle dials
\* nothing and leaves the trigger as it is; pressed in Idle with a contact it
\* dials that contact's formatted number at once, with no countdown, sets
\* callInProgress and starts the 5 s timer; pressed in Idle with no contact
\* it dials nothing and the trigger stays Idle; during the cooldown of a
\* manual call no shake, trigger or manual call is accepted, and the
\* cooldown ends only when its own timer fires.
C33_ManualCall ==
    /\ [][(lastEvent' = "manual" /\ ~Idle) => (TriggerUnchanged /\ calls' = 0)]_vars
    /\ [][(lastEvent' = "manual" /\ Idle /\ getPrimaryContact # 0)
            => /\ calls' = 1
               /\ dialed' = getPrimaryContact
               /\ DialedNumber' = formatNumber(phoneNumberOf(getPrimaryContact))
               /\ ~isActivated' /\ countdown' = 0 /\ callInProgress'
               /\ \E i \in Pending("manualCooldown")' :
                    timers'[i].rem = ManualTicks /\ timers'[i].own = "live"]_vars
    /\ [][(lastEvent' = "manual" /\ Idle /\ getPrimaryContact = 0)
            => (Idle' /\ calls' = 0)]_vars
    /\ [][(ManualCooldown /\ lastEvent' \in {"shake", "trigger", "manual"})
            => (TriggerUnchanged /\ calls' = 0)]_vars
    /\ [][(ManualCooldown /\ ~callInProgress')
            => (lastEvent' = "manualCooldown" /\ firedOwn' = "live")]_vars

\* C34: the countdown is between 0 and 5, and it is above zero only while
\* the trigger is activated and no call is in progress.
C34_CountdownInvariant ==
    /\ countdown >= 0
    /\ countdown <= CountdownStart
    /\ (countdown > 0 => (isActivated /\ ~callInProgress))

\* C35: isListening is true exactly when the devicemotion listener is attached;
\* start() on a listening detector changes nothing; never more than one
\* listener is attached (so a sample is handled at most once), also when
\* start() is called again while a permission request is still pending.
C35_OneListener ==
    /\ [](isListening <=> BoundHandleMotion \in listeners)
    /\ [](Cardinality(listeners) <= 1)
    /\ [][(detOp' = "start" /\ isListening)
            => UNCHANGED <<DetectorFields, listeners>>]_vars

\* start() was called twice before the first permission request settled; one
\* request has settled and attached the listener, the other is still pending
C35_Witness ==
    /\ platform = "ios"
    /\ detOp \in Responses
    /\ isListening
    /\ Cardinality(listeners) = 1
    /\ permPending = 1

\* the places of the stored contacts flagged isPrimary
Flagged(cs) == {k \in 1..Len(cs) : cs[k].isPrimary}

\* C36: after any sequence of addEmergencyContact, updateEmergencyContact and
\* deleteEmergencyContact calls from an empty store, at most one stored
\* contact has isPrimary = true.
C36_AtMostOnePrimary == Cardinality(Flagged(getEmergencyContacts)) <= 1

\* C37: getPrimaryContact() returns null exactly when the store is empty;
\* otherwise it returns a stored contact flagged isPrimary when there is one,
\* and the first stored contact when none is flagged.
C37_PrimaryOrFirst ==
    [][storeOp' = "getPrimary"
         => LET cs == getEmergencyContacts
            IN  /\ (result' = <<>>) <=> (cs = <<>>)
                /\ Flagged(cs) # {}
                     => /\ result' # <<>>
                        /\ \E k \in Flagged(cs) : result' = <<cs[k]>>
                /\ (Flagged(cs) = {} /\ cs # <<>>) => result' = <<cs[1]>>]_vars

\* getPrimaryContact() returned the first of several contacts none of which
\* is flagged
C37_Witness ==
    /\ storeOp = "getPrimary"
    /\ Len(getEmergencyContacts) > 1
    /\ Flagged(getEmergencyContacts) = {}
    /\ result = <<getEmergencyContacts[1]>>

\* C38: deleteEmergencyContact(id) removes exactly the contacts of that id and
\* leaves the others in their order; when a deleted contact was primary and
\* contacts remain, the first remaining one becomes primary; deleting an
\* unknown id changes nothing.
C38_DeleteRule ==
    [][storeOp' = "delete"
         => LET cs == getEmergencyContacts
                after == getEmergencyContactsOf(localStorage')
                kept == SelectSeq(cs, LAMBDA c : c.id # storeArg')
            IN  /\ Len(after) = Len(kept)
                /\ \A k \in 1..Len(kept) :
                        /\ after[k].id = kept[k].id
                        /\ k > 1 => after[k] = kept[k]
                /\ ((\E k \in Flagged(cs) : cs[k].id = storeArg') /\ Len(kept) > 0)
                     => after[1].isPrimary
                /\ storeArg' \notin Ids(cs) => after = cs]_vars

\* C39: while the service is listening, a recoverable error or an end event
\* leaves it listening with a restart scheduled, the restart timer of a
\* listening service calls recognition.start(), and only stop() called from
\* outside ends listening.
C39_RestartsWhileListening ==
    /\ [][(srOp' = "error" /\ srError' \in Recoverable /\ srListening)
            => (srListening' /\ restartTimeout' = ErrorRestartMs \div SpeechUnitMs)]_vars
    /\ [][(srOp' = "end" /\ srListening)
            => (srListening' /\ restartTimeout' # NoTimer)]_vars
    /\ [][(srOp' = "restart" /\ srListening) => (srCalled' /\ srListening')]_vars
    /\ [][(srListening /\ ~srListening') => srOp' = "stop"]_vars

TypeOK ==
    /\ isActivated \in BOOLEAN
    /\ countdown \in 0..CountdownStart
    /\ callInProgress \in BOOLEAN
    /\ callTimeoutRef \in BOOLEAN
    /\ permPending \in 0..MaxPending
    /\ calls \in 0..2
    /\ firedOwn \in {"", "live", "stale"}
    /\ added \in 0..MaxContacts
    /\ \A k \in 1..Len(contacts) : contacts[k].id \in ContactIds
    /\ Len(timers) <= MaxTimers
    /\ pos \in 0..Len(timers)
    /\ \A i \in 1..Len(timers) :
          /\ timers[i].own \in {"live", "stale"}
          /\ timers[i].rem >= 0
          /\ (i <= pos => timers[i].rem > 0)
====
